---- MODULE Spec2Model ----
(***************************************************************************)
(* Model of test-scraper-waits.py: a script whose module level extends the *)
(* module search path and whose entry point runs the coroutine             *)
(* test_scraper_timing under asyncio.run.  The coroutine is a straight     *)
(* line of print calls.                                                    *)
(*                                                                         *)
(* Text is modelled as a sequence of pieces (strings).  A newline          *)
(* character is always a piece of its own, and so is every decimal digit,  *)
(* so that the lines of the output and the figures printed in them can be  *)
(* read back from what was written.  The concatenation of the pieces of a  *)
(* literal is the literal of the source.                                   *)
(***************************************************************************)
EXTENDS Integers, Sequences, FiniteSets, TLC

(* ------------------------------------------------------------------ *)
(* Bounds of the model                                                 *)
(* ------------------------------------------------------------------ *)

\* Number of times the script is run in succession.
MaxRuns == 2

\* Argument lists the script is started with (sys.argv[1:]).
ArgLists == { <<>>, <<"--foo", "bar">>, <<"-v">> }

\* Paths the script is started from (__file__), as path components.
ScriptPaths == { <<"test-scraper-waits.py">>,
                 <<"app", "test-scraper-waits.py">> }

\* The files present before the first run.
InitialFiles == { <<"app", "test-scraper-waits.py">> }

(* ------------------------------------------------------------------ *)
(* Python strings and paths                                            *)
(* ------------------------------------------------------------------ *)

NL == "\n"

Digits == {"0", "1", "2", "3", "4", "5", "6", "7", "8", "9"}

DigitVal(d) ==
  CASE d = "0" -> 0 [] d = "1" -> 1 [] d = "2" -> 2 [] d = "3" -> 3
    [] d = "4" -> 4 [] d = "5" -> 5 [] d = "6" -> 6 [] d = "7" -> 7
    [] d = "8" -> 8 [] d = "9" -> 9

\* s * n with one repetition too few.
RECURSIVE str_mul_short(_, _)
str_mul_short(s, n) == IF n <= 1 THEN <<>> ELSE s \o str_mul_short(s, n - 1)

\* s * n : the string s repeated n times.
RECURSIVE str_mul(_, _)
str_mul(s, n) == IF n <= 0 THEN <<>> ELSE s \o str_mul(s, n - 1)

\* a + b on strings.
str_add(a, b) == a \o b

\* os.path.dirname on a path given by its components.
dirname(p) == IF Len(p) = 0 THEN <<>> ELSE SubSeq(p, 1, Len(p) - 1)

\* os.path.join(p, name).
path_join(p, name) == Append(p, name)

\* list.insert(i, x) for 0 <= i <= len(l).
list_insert(l, i, x) == SubSeq(l, 1, i) \o <<x>> \o SubSeq(l, i + 1, Len(l))

(* ------------------------------------------------------------------ *)
(* The literals of test_scraper_timing, one statement per print call   *)
(* ------------------------------------------------------------------ *)

SepWidth == 60

PrintStmt(pieces) == [op |-> "print", arg |-> pieces]

\* "=" * 60
Separator == str_mul(<<"=">>, SepWidth)

HeaderBlock ==
  << PrintStmt(<<"Testing Scraper Wait Times", NL>>),
     PrintStmt(Separator) >>

\* the OLD block with a total that is not the sum of its parts.
OldBlock_wrong_total ==
  << PrintStmt(<<NL, "OLD Wait Strategy:">>),
     PrintStmt(<<"  - Initial wait: ", "1", "0", "0", "0", "ms">>),
     PrintStmt(<<"  - Scroll (", "2", " steps @ ", "4", "0", "0", "ms): ",
                 "8", "0", "0", "ms">>),
     PrintStmt(<<"  - Network wait: ", "8", "0", "0", "ms">>),
     PrintStmt(<<"  - Total: ~", "2", ".", "8", " seconds">>) >>

OldBlock ==
  << PrintStmt(<<NL, "OLD Wait Strategy:">>),
     PrintStmt(<<"  - Initial wait: ", "1", "0", "0", "0", "ms">>),
     PrintStmt(<<"  - Scroll (", "2", " steps @ ", "4", "0", "0", "ms): ",
                 "8", "0", "0", "ms">>),
     PrintStmt(<<"  - Network wait: ", "8", "0", "0", "ms">>),
     PrintStmt(<<"  - Total: ~", "2", ".", "6", " seconds">>) >>

NewBlock ==
  << PrintStmt(<<NL, "NEW Wait Strategy:">>),
     PrintStmt(<<"  - Initial wait: ", "2", "0", "0", "0", "ms">>),
     PrintStmt(<<"  - Scroll (", "4", " steps @ ", "8", "0", "0", "ms): ",
                 "3", "2", "0", "0", "ms">>),
     PrintStmt(<<"  - Network wait: ", "2", "0", "0", "0", "ms">>),
     PrintStmt(<<"  - Total: ~", "7", ".", "2", " seconds">>) >>

\* the Improvement block with the ratio truncated instead of rounded.
ImprovementBlock_truncated ==
  << PrintStmt(<<NL, "Improvement:">>),
     PrintStmt(<<"  - ", "2", ".", "7", "x longer wait time">>),
     PrintStmt(<<"  - More scrolling to trigger lazy-loaded content">>),
     PrintStmt(<<"  - Better chance addresses will render before scraping">>) >>

ImprovementBlock ==
  << PrintStmt(<<NL, "Improvement:">>),
     PrintStmt(<<"  - ", "2", ".", "8", "x longer wait time">>),
     PrintStmt(<<"  - More scrolling to trigger lazy-loaded content">>),
     PrintStmt(<<"  - Better chance addresses will render before scraping">>) >>

\* the closing block without the newline that ends the last literal.
ClosingBlock_no_trailing_newline ==
  << PrintStmt(str_add(<<NL>>, Separator)),
     PrintStmt(<<NL, "Configuration updated successfully!">>),
     PrintStmt(<<NL, "To test with real data, run your scraper against">>),
     PrintStmt(<<"   the address validation page and check if addresses">>),
     PrintStmt(<<"   are now being returned.">>) >>

ClosingBlock ==
  << PrintStmt(str_add(<<NL>>, Separator)),
     PrintStmt(<<NL, "Configuration updated successfully!">>),
     PrintStmt(<<NL, "To test with real data, run your scraper against">>),
     PrintStmt(<<"   the address validation page and check if addresses">>),
     PrintStmt(<<"   are now being returned.", NL>>) >>

\* the body with the NEW block printed before the OLD block.
test_scraper_timing_swapped ==
  HeaderBlock \o NewBlock \o OldBlock \o ImprovementBlock \o ClosingBlock

\* The body of the coroutine: its statements in program order.
test_scraper_timing ==
  HeaderBlock \o OldBlock \o NewBlock \o ImprovementBlock \o ClosingBlock

(* ------------------------------------------------------------------ *)
(* State                                                               *)
(* ------------------------------------------------------------------ *)

\* procs : the runs of the script so far, oldest first; each is a record
\*         argv, script  what the process was started with
\*         pc            "module" | "guard" | "body" | "returned" | "done"
\*         ip            index of the next statement of the coroutine
\*         stdout        standard output: the lines written, as pieces
\*         sys_path      the module search path of the interpreter
\*         tasks         the tasks of the event loop of asyncio.run
\*         yields        times the coroutine gave control back to the loop
\*         exit_status   <<>> while the process runs, <<code>> once it exited
\* files : the filesystem, which outlives the processes
\* sent  : what was sent over the network
VARIABLES procs, files, sent

vars == <<procs, files, sent>>

\* sys.path of a fresh interpreter: the script's directory, then the library.
StartupSysPath(script) == << dirname(script), <<"usr", "lib", "python3">> >>

\* A stream nothing was written to: one open, empty line.
EmptyStream == << <<>> >>

NewProcess(av, script) ==
  [ argv        |-> av,
    script      |-> script,
    pc          |-> "module",
    ip          |-> 0,
    stdout      |-> EmptyStream,
    sys_path    |-> StartupSysPath(script),
    tasks       |-> {},
    yields      |-> 0,
    exit_status |-> <<>> ]

\* What one statement may read and change.
World(p) ==
  [ stdout |-> p.stdout, argv |-> p.argv, yields |-> p.yields,
    files |-> files, sent |-> sent, raised |-> FALSE ]

\* The runs of pieces of s between its newlines: one more than it has
\* newlines, the first and the last possibly empty.
Segments(s) ==
  LET nl == {i \in 1..Len(s) : s[i] = NL}
      n  == Cardinality(nl)
      pos(k) == IF k = 0 THEN 0
                ELSE IF k = n + 1 THEN Len(s) + 1
                ELSE CHOOSE i \in nl : Cardinality({j \in nl : j <= i}) = k
  IN [k \in 1..(n + 1) |-> SubSeq(s, pos(k - 1) + 1, pos(k) - 1)]

\* sys.stdout.write(s) on a stream kept as its lines, the last of them the
\* line still open: what precedes the first newline of s joins the open
\* line, and every newline of s ends a line and opens the next.
write(out, s) ==
  LET segs == Segments(s)
  IN SubSeq(out, 1, Len(out) - 1) \o <<out[Len(out)] \o segs[1]>> \o Tail(segs)

\* print(x): str(x), then end = "\n", to sys.stdout.
print(w, x) == [w EXCEPT !.stdout = write(write(@, x), <<NL>>)]

\* a print that fails (standard output closed).
Exec_raises(stmt, w) == [w EXCEPT !.raised = TRUE]

\* a print that also echoes the command-line arguments.
Exec_echo_args(stmt, w) == print(w, stmt.arg \o w.argv)

\* a print that marks the first run in a file and reports later runs.
Exec_run_marker(stmt, w) ==
  [ print(w, IF <<"run.marker">> \in w.files
               THEN stmt.arg \o <<" (again)">> ELSE stmt.arg)
      EXCEPT !.files = @ \cup {<<"run.marker">>} ]

\* a print that reports over the network as well.
Exec_reports(stmt, w) == [print(w, stmt.arg) EXCEPT !.sent = Append(@, stmt.arg)]

\* a print preceded by "await asyncio.sleep(0)".
Exec_suspends(stmt, w) == [print(w, stmt.arg) EXCEPT !.yields = @ + 1]

\* The effect of one statement of the coroutine.  Every statement of the
\* body is a call of print with one literal argument.
Exec(stmt, w) == print(w, stmt.arg)

Current == procs[Len(procs)]

SetCurrent(p) == [procs EXCEPT ![Len(procs)] = p]

Running == Len(procs) > 0 /\ Current.pc # "done"

(* ------------------------------------------------------------------ *)
(* Actions                                                             *)
(* ------------------------------------------------------------------ *)

Init ==
  /\ procs = <<>>
  /\ files = InitialFiles
  /\ sent = <<>>

\* The script is started (again, once the previous run has exited).
Launch ==
  /\ ~Running
  /\ Len(procs) < MaxRuns
  /\ \E av \in ArgLists, script \in ScriptPaths :
       procs' = Append(procs, NewProcess(av, script))
  /\ UNCHANGED <<files, sent>>

\* Module level: the imports, then
\* sys.path.insert(0, os.path.join(os.path.dirname(__file__), 'backend')).
ModuleLevel ==
  /\ Running
  /\ Current.pc = "module"
  /\ LET p == Current
         backend == path_join(dirname(p.script), "backend")
     IN procs' = SetCurrent([p EXCEPT !.sys_path = list_insert(@, 0, backend),
                                      !.pc = "guard"])
  /\ UNCHANGED <<files, sent>>

\* if __name__ == "__main__": asyncio.run(test_scraper_timing())
\* The runner makes an event loop with one task for the coroutine.
MainGuard ==
  /\ Running
  /\ Current.pc = "guard"
  /\ procs' = SetCurrent([Current EXCEPT !.tasks = {"test_scraper_timing"},
                                         !.ip = 1,
                                         !.pc = "body"])
  /\ UNCHANGED <<files, sent>>

\* One statement of the coroutine.  An exception nothing catches ends the
\* process with status 1; after the last statement the coroutine returns.
Step ==
  /\ Running
  /\ Current.pc = "body"
  /\ LET p == Current
         w == Exec(test_scraper_timing[p.ip], World(p))
         q == [p EXCEPT !.stdout = w.stdout, !.yields = w.yields]
     IN /\ procs' = SetCurrent(
               IF w.raised
                 THEN [q EXCEPT !.pc = "done", !.tasks = {}, !.exit_status = <<1>>]
                 ELSE IF p.ip = Len(test_scraper_timing)
                        THEN [q EXCEPT !.pc = "returned"]
                        ELSE [q EXCEPT !.ip = p.ip + 1])
        /\ files' = w.files
        /\ sent' = w.sent

\* The coroutine has returned: asyncio.run closes the loop, the module ends
\* and the interpreter exits with status 0.
Exit ==
  /\ Running
  /\ Current.pc = "returned"
  /\ procs' = SetCurrent([Current EXCEPT !.pc = "done", !.tasks = {},
                                         !.exit_status = <<0>>])
  /\ UNCHANGED <<files, sent>>

ProcessStep == ModuleLevel \/ MainGuard \/ Step \/ Exit

Next == Launch \/ ModuleLevel \/ MainGuard \/ Step \/ Exit

Spec == Init /\ [][Next]_vars

\* A started interpreter keeps running its program.
LiveSpec == Spec /\ WF_vars(ProcessStep)

(* ------------------------------------------------------------------ *)
(* Reading the output back                                             *)
(* ------------------------------------------------------------------ *)

\* The lines written to a stream: its terminated lines, and the open line
\* when something was written to it.
Lines(out) ==
  IF out[Len(out)] = <<>> THEN SubSeq(out, 1, Len(out) - 1) ELSE out

\* The text of a sequence of pieces.
RECURSIVE Text(_)
Text(ps) == IF ps = <<>> THEN "" ELSE Head(ps) \o Text(Tail(ps))

LineTexts(out) == LET ls == Lines(out) IN [i \in 1..Len(ls) |-> Text(ls[i])]

\* A sequence of texts without the empty ones at its end.
RECURSIVE StripTrailingBlank(_)
StripTrailingBlank(ts) ==
  IF ts # <<>> /\ ts[Len(ts)] = ""
    THEN StripTrailingBlank(SubSeq(ts, 1, Len(ts) - 1))
    ELSE ts

\* The decimal numbers of a line: its maximal runs of digits, left to right.
RECURSIVE ScanNumbers(_, _, _, _)
ScanNumbers(ps, i, n, open) ==
  IF i > Len(ps) THEN (IF open THEN <<n>> ELSE <<>>)
  ELSE IF ps[i] \in Digits
         THEN ScanNumbers(ps, i + 1, 10 * n + DigitVal(ps[i]), TRUE)
         ELSE (IF open THEN <<n>> ELSE <<>>) \o ScanNumbers(ps, i + 1, 0, FALSE)

Numbers(ps) == ScanNumbers(ps, 1, 0, FALSE)

Occurrences(ts, t) == {i \in 1..Len(ts) : ts[i] = t}

\* Index of the first line with text t (0 when there is none).
IndexOf(ts, t) ==
  LET occ == Occurrences(ts, t)
  IN IF occ = {} THEN 0 ELSE CHOOSE i \in occ : \A j \in occ : i <= j

\* "~S.T seconds" in milliseconds, from the numbers <<S, T>> of the line.
TotalMs(nums) == 1000 * nums[1] + 100 * nums[2]

Runs == 1..Len(procs)

Done(r) == r \in Runs /\ procs[r].pc = "done"

\* The output of n statements executed synchronously, one after the other.
RECURSIVE SyncOutput(_)
SyncOutput(n) ==
  IF n = 0 THEN EmptyStream
  ELSE write(write(SyncOutput(n - 1), test_scraper_timing[n].arg), <<NL>>)

OldHeader == "OLD Wait Strategy:"
NewHeader == "NEW Wait Strategy:"
ImprovementHeader == "Improvement:"
Confirmation == "Configuration updated successfully!"
LastBullet == "  - Better chance addresses will render before scraping"
Rule60 == "============================================================"

\* The text block of section 6 of the specification, line by line.
Section6 ==
  << "Testing Scraper Wait Times",
     "",
     Rule60,
     "",
     "OLD Wait Strategy:",
     "  - Initial wait: 1000ms",
     "  - Scroll (2 steps @ 400ms): 800ms",
     "  - Network wait: 800ms",
     "  - Total: ~2.6 seconds",
     "",
     "NEW Wait Strategy:",
     "  - Initial wait: 2000ms",
     "  - Scroll (4 steps @ 800ms): 3200ms",
     "  - Network wait: 2000ms",
     "  - Total: ~7.2 seconds",
     "",
     "Improvement:",
     "  - 2.8x longer wait time",
     "  - More scrolling to trigger lazy-loaded content",
     "  - Better chance addresses will render before scraping",
     "",
     Rule60,
     "",
     "Configuration updated successfully!",
     "",
     "To test with real data, run your scraper against",
     "   the address validation page and check if addresses",
     "   are now being returned." >>

(* ------------------------------------------------------------------ *)
(* Properties                                                          *)
(* ------------------------------------------------------------------ *)

\* C1: a run with no arguments that has exited has written, line for line
\* and in order, the text block of section 6, up to trailing newlines.
C1_OutputIsSection6 ==
  \A r \in Runs :
    (Done(r) /\ procs[r].argv = <<>>) =>
      StripTrailingBlank(LineTexts(procs[r].stdout)) = StripTrailingBlank(Section6)

C1_Witness ==
  \E r \in Runs : Done(r) /\ procs[r].argv = <<>> /\ procs[r].stdout # EmptyStream

\* C2: every started run reaches "done"; it executes no statement beyond the
\* last one of the body, no run ends in an error, and every run that has
\* ended has exit status 0.
C2_TerminatesWithStatus0 ==
  /\ [](\A r \in Runs :
          /\ procs[r].ip <= Len(test_scraper_timing)
          /\ procs[r].exit_status \in {<<>>, <<0>>}
          /\ (procs[r].pc = "done" <=> procs[r].exit_status = <<0>>))
  /\ \A r \in 1..MaxRuns : (Len(procs) >= r) ~> Done(r)

C2_Witness ==
  \E r \in Runs : procs[r].pc = "done" /\ procs[r].exit_status = <<0>>
                  /\ procs[r].ip = Len(test_scraper_timing)

\* C3: any two runs that have exited, whatever their argument lists, have
\* written the same output and both have exit status 0.
C3_ArgumentsIgnored ==
  \A r1, r2 \in Runs :
    (Done(r1) /\ Done(r2)) =>
      /\ procs[r1].stdout = procs[r2].stdout
      /\ procs[r1].exit_status = <<0>>
      /\ procs[r2].exit_status = <<0>>

C3_Witness ==
  \E r1, r2 \in Runs :
    /\ Done(r1) /\ Done(r2)
    /\ procs[r1].argv = <<>>
    /\ procs[r2].argv = <<"--foo", "bar">>

\* C4: a run started the same way right after another has the same output
\* as that one, and a run leaves nothing behind for the next to read: the
\* filesystem is as it was before the first run.
C4_SecondRunSameOutput ==
  /\ files = InitialFiles
  /\ \A r \in Runs :
       (r > 1 /\ Done(r) /\ procs[r].argv = procs[r - 1].argv
              /\ procs[r].script = procs[r - 1].script) =>
         LineTexts(procs[r].stdout) = LineTexts(procs[r - 1].stdout)

C4_Witness ==
  /\ Len(procs) >= 2
  /\ Done(2)
  /\ procs[2].argv = procs[1].argv
  /\ procs[2].script = procs[1].script
  /\ procs[2].stdout # EmptyStream

\* C5 as claimed: no step changes anything but standard output; the
\* filesystem, the network and the module search path of every process are
\* left as they are.
C5_OnlyStdoutChanges ==
  [][ /\ files' = files
      /\ sent' = sent
      /\ \A r \in Runs : procs'[r].sys_path = procs[r].sys_path ]_vars

\* C5, amended: no step changes the filesystem or sends anything over the
\* network; besides standard output a process changes its module search
\* path, once, at module level, by putting <script directory>/backend in
\* front of it.
C5_StdoutAndSearchPathOnly ==
  [][ /\ files' = files
      /\ sent' = sent
      /\ \A r \in Runs :
           procs'[r].sys_path # procs[r].sys_path =>
             /\ procs[r].pc = "module"
             /\ procs[r].stdout = EmptyStream
             /\ procs'[r].stdout = EmptyStream
             /\ procs'[r].sys_path =
                  <<Append(dirname(procs[r].script), "backend")>>
                    \o procs[r].sys_path ]_vars

C5_Witness ==
  \E r \in Runs :
    /\ Done(r)
    /\ procs[r].sys_path[1] = Append(dirname(procs[r].script), "backend")
    /\ Len(procs[r].sys_path) = 3
    /\ procs[r].stdout # EmptyStream

\* C6: the coroutine never gives control back to the event loop, the loop
\* never holds another task, and at every point the output is the output of
\* the same statements executed synchronously in sequence.
C6_NeverSuspends ==
  \A r \in Runs :
    /\ procs[r].yields = 0
    /\ procs[r].tasks \subseteq {"test_scraper_timing"}
    /\ (procs[r].pc = "body" => procs[r].stdout = SyncOutput(procs[r].ip - 1))
    /\ (procs[r].pc \in {"returned", "done"} =>
          procs[r].stdout = SyncOutput(Len(test_scraper_timing)))

C6_Witness ==
  \E r \in Runs :
    /\ procs[r].pc = "returned"
    /\ procs[r].tasks = {"test_scraper_timing"}
    /\ procs[r].yields = 0
    /\ procs[r].stdout = SyncOutput(Len(test_scraper_timing))

\* C7: what a finished run has written after the last bullet of the
\* Improvement block is exactly: a blank line, the 60-character separator, a
\* blank line, the confirmation, a blank line, the three instructional lines
\* and one blank line; nothing follows the newline that ends that blank line.
C7_ClosingLines ==
  \A r \in Runs :
    procs[r].pc \in {"returned", "done"} =>
      LET buf == procs[r].stdout
          ts  == LineTexts(buf)
          k   == IndexOf(ts, LastBullet)
      IN /\ k > 0
         /\ SubSeq(ts, k + 1, Len(ts)) =
              << "", Rule60, "", Confirmation, "",
                 "To test with real data, run your scraper against",
                 "   the address validation page and check if addresses",
                 "   are now being returned.",
                 "" >>
         /\ buf[Len(buf)] = <<>>

C7_Witness ==
  \E r \in Runs :
    /\ Done(r)
    /\ IndexOf(LineTexts(procs[r].stdout), LastBullet) > 0
    /\ Len(LineTexts(procs[r].stdout)) =
         IndexOf(LineTexts(procs[r].stdout), LastBullet) + 9

Markers == <<OldHeader, NewHeader, ImprovementHeader, Confirmation>>

\* C8: at every point of a run each of the four marker lines has been
\* written at most once, a later marker only after the earlier ones and
\* below them, and a finished run has written each exactly once; a run that
\* is done stays done and its output no longer changes.
C8_OnceAndInOrder ==
  /\ [](\A r \in Runs :
          LET ts == LineTexts(procs[r].stdout)
          IN /\ \A m \in 1..Len(Markers) :
                  /\ Cardinality(Occurrences(ts, Markers[m])) <= 1
                  /\ (Done(r) => Cardinality(Occurrences(ts, Markers[m])) = 1)
             /\ \A m \in 1..(Len(Markers) - 1) :
                  IndexOf(ts, Markers[m + 1]) > 0 =>
                    /\ IndexOf(ts, Markers[m]) > 0
                    /\ IndexOf(ts, Markers[m]) < IndexOf(ts, Markers[m + 1]))
  /\ [][\A r \in Runs : procs[r].pc = "done" => procs'[r] = procs[r]]_vars

C8_Witness ==
  \E r \in Runs :
    /\ Done(r)
    /\ IndexOf(LineTexts(procs[r].stdout), OldHeader) > 0
    /\ IndexOf(LineTexts(procs[r].stdout), Confirmation)
         > IndexOf(LineTexts(procs[r].stdout), ImprovementHeader)
    /\ Len(procs) = MaxRuns

\* The figures of the four lines under a strategy header:
\* <<initial, steps, per step, scroll, network, total in ms>>.
Figures(out, header) ==
  LET ls == Lines(out)
      h  == IndexOf(LineTexts(out), header)
      scroll == Numbers(ls[h + 2])
  IN << Numbers(ls[h + 1])[1], scroll[1], scroll[2], scroll[3],
        Numbers(ls[h + 3])[1], TotalMs(Numbers(ls[h + 4])) >>

Consistent(f) == f[2] * f[3] = f[4] /\ f[6] = f[1] + f[4] + f[5]

\* C9: in the output of a finished run the figures of each strategy are
\* consistent in integer milliseconds: scroll = steps * per-step wait and
\* total = initial + scroll + network; they are 1000, 2 * 400 = 800, 800,
\* 2600 for OLD and 2000, 4 * 800 = 3200, 2000, 7200 for NEW.
C9_FiguresConsistent ==
  \A r \in Runs :
    Done(r) =>
      /\ Consistent(Figures(procs[r].stdout, OldHeader))
      /\ Consistent(Figures(procs[r].stdout, NewHeader))
      /\ Figures(procs[r].stdout, OldHeader) = <<1000, 2, 400, 800, 800, 2600>>
      /\ Figures(procs[r].stdout, NewHeader) = <<2000, 4, 800, 3200, 2000, 7200>>

C9_Witness ==
  \E r \in Runs :
    /\ Done(r)
    /\ IndexOf(LineTexts(procs[r].stdout), OldHeader) > 0
    /\ IndexOf(LineTexts(procs[r].stdout), NewHeader) > 0
    /\ Figures(procs[r].stdout, NewHeader)[6] = 7200

\* The printed factor in tenths: "2.8x" is 28.
FactorTenths(out) ==
  LET nums == Numbers(Lines(out)[IndexOf(LineTexts(out), ImprovementHeader) + 1])
  IN 10 * nums[1] + nums[2]

\* C10: in the output of a finished run the printed factor is the ratio of
\* the NEW total to the OLD total rounded to one decimal place: with f the
\* factor in tenths (28), (f - 1/2) * old <= 10 * new < (f + 1/2) * old.
C10_FactorIsRoundedRatio ==
  \A r \in Runs :
    Done(r) =>
      LET f    == FactorTenths(procs[r].stdout)
          old  == Figures(procs[r].stdout, OldHeader)[6]
          new  == Figures(procs[r].stdout, NewHeader)[6]
      IN /\ f = 28
         /\ (2 * f - 1) * old <= 20 * new
         /\ 20 * new < (2 * f + 1) * old

C10_Witness ==
  \E r \in Runs :
    /\ Done(r)
    /\ IndexOf(LineTexts(procs[r].stdout), ImprovementHeader) > 0
    /\ FactorTenths(procs[r].stdout) = 28

====
